---- MODULE Spec2Model ----
(***************************************************************************)
(* Model of aqi_predictor.cpp: the rule classifier (compute_aqi_level,     *)
(* compute_health_risk), the metrics engine (compute_metrics_for_label)    *)
(* and the driver main(): generate, shuffle, split, predict, evaluate,     *)
(* report, then one interactive sample read from standard input.           *)
(*                                                                         *)
(* Numbers.  A double field v is held as the integer v * Scale (three      *)
(* decimal places), so the weighted score and the threshold comparisons    *)
(* are exact decimal arithmetic.  The binary rounding of IEEE doubles is   *)
(* not modelled.  Ratios (precision, recall, F1, accuracy) are exact       *)
(* fractions [n, d].                                                       *)
(***************************************************************************)
EXTENDS Integers, Sequences, FiniteSets, Bags, TLC

VARIABLES
    pc,           \* position in main(), or the harness a unit specification runs
    data,         \* vector<Sample> data
    train,        \* vector<Sample> train
    test,         \* vector<Sample> test
    y_true_aqi, y_pred_aqi, y_true_hr, y_pred_hr,
    acc_aqi, acc_hr,          \* overall accuracies
    report_aqi, report_hr,    \* Metrics per label, in label order
    input,        \* everything standard input will deliver (sequence of lines)
    stdin,        \* the lines of input not yet read
    cin_ok,       \* cin is still good (no getline has failed)
    line,         \* string line
    s,            \* Sample s of the interactive step
    use_demo,     \* bool use_demo
    out,          \* what was written to cout, one entry per item
    fault,        \* an out-of-bounds lookup or a zero denominator happened
    exit_status   \* value returned by main, -1 while running

vars == <<pc, data, train, test, y_true_aqi, y_pred_aqi, y_true_hr, y_pred_hr,
          acc_aqi, acc_hr, report_aqi, report_hr, input, stdin, cin_ok, line,
          s, use_demo, out, fault, exit_status>>

-----------------------------------------------------------------------------
(* Bounds of the model *)

\* const int N: the source generates 1500 samples; the model generates N
N == 4
\* longest label sequence handed to compute_metrics_for_label by the harness
MaxLen == 3

-----------------------------------------------------------------------------
(* Fixed-point representation of double *)

Scale == 10 * 10 * 10

\* the double with integer part i and three decimals f (0..999)
Fx(i, f) == i * Scale + f

-----------------------------------------------------------------------------
(* Sample *)

NewSample(t, h, c, pm25, pm10, no2, o3, w, city) ==
    [Temperature |-> t, Humidity |-> h, CO2 |-> c, PM2_5 |-> pm25,
     PM10 |-> pm10, NO2 |-> no2, O3 |-> o3, WindSpeed |-> w,
     CityType |-> city, AQI_Level |-> -1, Health_Risk |-> -1]

\* `Sample s;` before any field is written.  Every field is written before
\* it is first read, so the placeholder never reaches a computation.
UninitSample == NewSample(-1, -1, -1, -1, -1, -1, -1, -1, -1)

-----------------------------------------------------------------------------
(* Rule classifier *)

\* score, in units of 1/(100*Scale): the weights 0.3 0.2 0.1 0.05 are
\* 30, 20, 10 and 5 hundredths
Score(smp) == 30 * smp.PM2_5 + 20 * smp.PM10 + 10 * smp.NO2 + 5 * smp.O3

\* a threshold of the source (50, 100, 200) in the units of Score
Thr(t) == t * 100 * Scale

compute_aqi_level_le(smp) ==
    LET score == Score(smp) IN
    IF score <= Thr(50) THEN 0
    ELSE IF score <= Thr(100) THEN 1
    ELSE IF score <= Thr(200) THEN 2
    ELSE 3

compute_aqi_level(smp) ==
    LET score == Score(smp) IN
    IF score < Thr(50) THEN 0
    ELSE IF score < Thr(100) THEN 1
    ELSE IF score < Thr(200) THEN 2
    ELSE 3

compute_health_risk_noaqi3(smp) ==
    LET aqi == smp.AQI_Level IN
    IF aqi = 0 THEN 0
    ELSE IF aqi = 1 THEN 1
    ELSE IF aqi = 2 /\ smp.CityType = 1 THEN 2
    ELSE IF smp.CityType = 1 THEN 2 ELSE 1

compute_health_risk_passthrough(smp) ==
    LET aqi == smp.AQI_Level IN
    IF aqi = 0 THEN 0
    ELSE IF aqi = 1 THEN 1
    ELSE IF aqi = 2 /\ smp.CityType = 1 THEN 2
    ELSE IF aqi = 3 THEN 3
    ELSE IF smp.CityType = 1 THEN 2 ELSE 1

compute_health_risk(smp) ==
    LET aqi == smp.AQI_Level IN
    IF aqi = 0 THEN 0
    ELSE IF aqi = 1 THEN 1
    ELSE IF aqi = 2 /\ smp.CityType = 1 THEN 2
    ELSE IF aqi = 3 THEN 2
    ELSE IF smp.CityType = 1 THEN 2 ELSE 1

\* s.AQI_Level = compute_aqi_level(s); s.Health_Risk = compute_health_risk(s);
Labelled(smp) ==
    LET a == [smp EXCEPT !.AQI_Level = compute_aqi_level(smp)]
    IN  [a EXCEPT !.Health_Risk = compute_health_risk(a)]

-----------------------------------------------------------------------------
(* Metrics *)

Frac(n, d) == [n |-> n, d |-> d]
Zero == Frac(0, 1)

\* the for loop of compute_metrics_for_label, positions i..n, returning
\* <<tp, fp, fn>>
RECURSIVE CountLoop(_, _, _, _, _)
CountLoop(yt, yp, label, i, c) ==
    IF i > Len(yt) THEN c
    ELSE LET t == (yt[i] = label)
             p == (yp[i] = label)
         IN  CountLoop(yt, yp, label, i + 1,
                 <<c[1] + (IF t /\ p THEN 1 ELSE 0),
                   c[2] + (IF ~t /\ p THEN 1 ELSE 0),
                   c[3] + (IF t /\ ~p THEN 1 ELSE 0)>>)

\* for (int v : y_true) if (v == label) m.support++;
RECURSIVE SupportLoop(_, _, _)
SupportLoop(yt, label, i) ==
    IF i > Len(yt) THEN 0
    ELSE (IF yt[i] = label THEN 1 ELSE 0) + SupportLoop(yt, label, i + 1)

SupportSkipFirst(yt, label) == SupportLoop(yt, label, 2)

Support(yt, label) == SupportLoop(yt, label, 1)

compute_metrics_for_label_swapped(yt, yp, label) ==
    LET c  == CountLoop(yp, yt, label, 1, <<0, 0, 0>>)
        tp == c[1]
        fp == c[2]
        fn == c[3]
        precision == IF tp + fp # 0 THEN Frac(tp, tp + fp) ELSE Zero
        recall    == IF tp + fn # 0 THEN Frac(tp, tp + fn) ELSE Zero
        sum == precision.n * recall.d + recall.n * precision.d
        f1 == IF sum # 0 THEN Frac(2 * precision.n * recall.n, sum) ELSE Zero
    IN  [precision |-> precision, recall |-> recall, f1 |-> f1,
         support |-> Support(yp, label)]

compute_metrics_for_label(yt, yp, label) ==
    LET c  == CountLoop(yt, yp, label, 1, <<0, 0, 0>>)
        tp == c[1]
        fp == c[2]
        fn == c[3]
        precision == IF tp + fp # 0 THEN Frac(tp, tp + fp) ELSE Zero
        recall    == IF tp + fn # 0 THEN Frac(tp, tp + fn) ELSE Zero
        \* precision + recall, over the common denominator
        sum == precision.n * recall.d + recall.n * precision.d
        \* 2.0 * precision * recall / (precision + recall)
        f1 == IF sum # 0 THEN Frac(2 * precision.n * recall.n, sum) ELSE Zero
    IN  [precision |-> precision, recall |-> recall, f1 |-> f1,
         support |-> Support(yt, label)]

-----------------------------------------------------------------------------
(* Text: a string is a sequence of one-character strings *)

DigitChars == <<"0", "1", "2", "3", "4", "5", "6", "7", "8", "9">>

IsDigit(c) == \E i \in 1..Len(DigitChars) : DigitChars[i] = c

DigitVal(c) == (CHOOSE i \in 1..Len(DigitChars) : DigitChars[i] = c) - 1

\* the literal "demo"
DemoWord == <<"d", "e", "m", "o">>

-----------------------------------------------------------------------------
(* Stream extraction: istringstream iss(line); iss >> double ... >> int *)

\* leading whitespace skipped by operator>>
RECURSIVE SkipWs(_)
SkipWs(str) ==
    IF str # <<>> /\ Head(str) = " " THEN SkipWs(Tail(str)) ELSE str

\* the longest prefix of digits, and what follows it
RECURSIVE TakeDigits(_)
TakeDigits(str) ==
    IF str # <<>> /\ IsDigit(Head(str))
    THEN LET r == TakeDigits(Tail(str)) IN <<<<Head(str)>> \o r[1], r[2]>>
    ELSE <<<<>>, str>>

\* value of a digit string read as an integer
RECURSIVE DigitsVal(_)
DigitsVal(ds) ==
    IF ds = <<>> THEN 0
    ELSE 10 * DigitsVal(SubSeq(ds, 1, Len(ds) - 1)) + DigitVal(ds[Len(ds)])

\* value, in 1/Scale, of the digits after the decimal point (the inputs of
\* the model carry at most three)
FracVal(ds) ==
    LET d(i) == IF i <= Len(ds) THEN DigitVal(ds[i]) ELSE 0
    IN  (d(1) * 10 * 10 + d(2) * 10 + d(3)) * (Scale \div (10 * 10 * 10))

\* iss >> double: optional sign, digits, optional point and digits; at least
\* one digit.  Stops at the first character that cannot continue the number.
ExtractDouble(str) ==
    LET a      == SkipWs(str)
        signed == a # <<>> /\ Head(a) \in {"-", "+"}
        neg    == a # <<>> /\ Head(a) = "-"
        b      == IF signed THEN Tail(a) ELSE a
        ip     == TakeDigits(b)
        point  == ip[2] # <<>> /\ Head(ip[2]) = "."
        fp     == IF point THEN TakeDigits(Tail(ip[2])) ELSE <<<<>>, ip[2]>>
        ok     == Len(ip[1]) + Len(fp[1]) > 0
        mag    == DigitsVal(ip[1]) * Scale + FracVal(fp[1])
    IN  [ok |-> ok,
         val |-> IF ok THEN (IF neg THEN -mag ELSE mag) ELSE 0,
         rest |-> fp[2]]

\* iss >> int: optional sign and at least one digit
ExtractInt(str) ==
    LET a      == SkipWs(str)
        signed == a # <<>> /\ Head(a) \in {"-", "+"}
        neg    == a # <<>> /\ Head(a) = "-"
        b      == IF signed THEN Tail(a) ELSE a
        ip     == TakeDigits(b)
        ok     == Len(ip[1]) > 0
        mag    == DigitsVal(ip[1])
    IN  [ok |-> ok,
         val |-> IF ok THEN (IF neg THEN -mag ELSE mag) ELSE 0,
         rest |-> ip[2]]

\* the fields in the order of the extraction chain
FieldNames == <<"Temperature", "Humidity", "CO2", "PM2_5", "PM10", "NO2",
                "O3", "WindSpeed", "CityType">>

\* the chain iss >> s.Temperature >> ... >> s.CityType from field k on: each
\* extraction stores its value; the first failure stores 0 and ends the chain
RECURSIVE ExtractFields(_, _, _)
ExtractFields(str, k, smp) ==
    IF k > Len(FieldNames) THEN [ok |-> TRUE, s |-> smp]
    ELSE LET r == IF FieldNames[k] = "CityType" THEN ExtractInt(str)
                  ELSE ExtractDouble(str)
             w == [smp EXCEPT ![FieldNames[k]] = r.val]
         IN  IF r.ok THEN ExtractFields(r.rest, k + 1, w)
             ELSE [ok |-> FALSE, s |-> w]

\* the nine assignments of the demo sample
DemoFields(smp) ==
    [smp EXCEPT !.Temperature = Fx(33, 0), !.Humidity = Fx(65, 0),
                !.CO2 = Fx(550, 0), !.PM2_5 = Fx(150, 0),
                !.PM10 = Fx(180, 0), !.NO2 = Fx(80, 0), !.O3 = Fx(60, 0),
                !.WindSpeed = Fx(3, 500), !.CityType = 1]

\* the fields after the parse failure branch
InvalidFields(smp) == DemoFields(smp)

\* what the failure branch writes to cout
InvalidNoticeNone == <<>>

InvalidNotice == <<<<"Invalid input. Running demo sample.">>>>

\* getline(cin, line): <<line, remaining input, stream still good>>
Getline(st, ok, old) ==
    IF ~ok THEN <<old, st, FALSE>>
    ELSE IF st = <<>> THEN <<<<>>, st, FALSE>>
    ELSE <<Head(st), Tail(st), TRUE>>

\* getline(cin, line); if (line.empty()) getline(cin, line);
ReadLine(st, ok) ==
    LET g1 == Getline(st, ok, <<>>)
    IN  IF g1[1] = <<>> THEN Getline(g1[2], g1[3], g1[1]) ELSE g1

-----------------------------------------------------------------------------
(* Driver: main() *)

AQI_labels == <<"Good", "Moderate", "Unhealthy", "Hazardous">>
HR_labels == <<"Low", "Medium", "High">>

\* arr[i] of a C array: defined only for 0 <= i < size
InBounds(arr, i) == (i + 1) \in DOMAIN arr
At(arr, i) == IF InBounds(arr, i) THEN arr[i + 1] ELSE "<out of bounds>"

\* values the generator can draw (each inside the range main() draws from)
GenTemperature == {Fx(10, 0)}
GenHumidity == {Fx(20, 0)}
GenCO2 == {Fx(300, 0)}
GenPM2_5 == {Fx(5, 0), Fx(250, 0)}
GenPM10 == {Fx(200, 0)}
GenNO2 == {Fx(2, 0)}
GenO3 == {Fx(5, 0)}
GenWindSpeed == {Fx(0, 500)}
GenCityType == {0, 1}

\* int train_size = (int)(0.8 * N);
train_size_all(n) == n

train_size(n) == (8 * n) \div 10

\* vector<Sample> train(data.begin(), data.begin() + train_size);
TrainPart(d) == SubSeq(d, 1, train_size(Len(d)))

TestPartOverlap(d) == SubSeq(d, train_size(Len(d)), Len(d))

\* vector<Sample> test(data.begin() + train_size, data.end());
TestPart(d) == SubSeq(d, train_size(Len(d)) + 1, Len(d))

\* y_true_aqi.push_back(s.AQI_Level) over the test partition
TrueAqiFromRisk(t) == [i \in 1..Len(t) |-> t[i].Health_Risk]

TrueAqi(t) == [i \in 1..Len(t) |-> t[i].AQI_Level]

\* y_true_hr.push_back(s.Health_Risk)
TrueHr(t) == [i \in 1..Len(t) |-> t[i].Health_Risk]

\* y_pred_aqi.push_back(compute_aqi_level(s))
PredAqi(t) == [i \in 1..Len(t) |-> compute_aqi_level(t[i])]

\* y_pred_hr.push_back(compute_health_risk(s))
PredHr(t) == [i \in 1..Len(t) |-> compute_health_risk(t[i])]

\* correct / y_true.size()
Accuracy(yt, yp) ==
    Frac(Cardinality({i \in 1..Len(yt) : yt[i] = yp[i]}), Len(yt))

\* for (int lbl = 0; lbl <= maxlbl; ++lbl) compute_metrics_for_label(...)
ReportFor(yt, yp, maxlbl) ==
    [k \in 1..(maxlbl + 1) |-> compute_metrics_for_label(yt, yp, k - 1)]

\* the three lines printed for the classified sample, and the closing text
PredictionOutput(smp) ==
    << <<"Prediction for the sample:">>,
       <<"AQI Score -> Level", smp.AQI_Level, At(AQI_labels, smp.AQI_Level)>>,
       <<"Health Risk ->", smp.Health_Risk, At(HR_labels, smp.Health_Risk)>>,
       <<"Done.">> >>

PromptOutput == <<"Input: ">>

Init ==
    /\ pc = "generate"
    /\ data = <<>> /\ train = <<>> /\ test = <<>>
    /\ y_true_aqi = <<>> /\ y_pred_aqi = <<>>
    /\ y_true_hr = <<>> /\ y_pred_hr = <<>>
    /\ acc_aqi = Zero /\ acc_hr = Zero
    /\ report_aqi = <<>> /\ report_hr = <<>>
    /\ input = <<>> /\ stdin = <<>> /\ cin_ok = TRUE
    /\ line = <<>> /\ s = UninitSample /\ use_demo = FALSE
    /\ out = <<>> /\ fault = FALSE /\ exit_status = -1

\* one iteration of the generation loop
Generate ==
    /\ pc = "generate"
    /\ Len(data) < N
    /\ \E t \in GenTemperature, h \in GenHumidity, c \in GenCO2,
          pm25 \in GenPM2_5, pm10 \in GenPM10, no2 \in GenNO2, o3 \in GenO3,
          w \in GenWindSpeed, city \in GenCityType :
            data' = Append(data,
                      Labelled(NewSample(t, h, c, pm25, pm10, no2, o3, w, city)))
    /\ pc' = IF Len(data') < N THEN "generate" ELSE "shuffle"
    /\ UNCHANGED <<train, test, y_true_aqi, y_pred_aqi, y_true_hr, y_pred_hr,
                   acc_aqi, acc_hr, report_aqi, report_hr, input, stdin,
                   cin_ok, line, s, use_demo, out, fault, exit_status>>

\* shuffle(data.begin(), data.end(), rng): any permutation
Shuffle ==
    /\ pc = "shuffle"
    /\ \E p \in Permutations(1..Len(data)) :
            data' = [i \in 1..Len(data) |-> data[p[i]]]
    /\ pc' = "split"
    /\ UNCHANGED <<train, test, y_true_aqi, y_pred_aqi, y_true_hr, y_pred_hr,
                   acc_aqi, acc_hr, report_aqi, report_hr, input, stdin,
                   cin_ok, line, s, use_demo, out, fault, exit_status>>

Split ==
    /\ pc = "split"
    /\ train' = TrainPart(data)
    /\ test' = TestPart(data)
    /\ pc' = "predict"
    /\ UNCHANGED <<data, y_true_aqi, y_pred_aqi, y_true_hr, y_pred_hr,
                   acc_aqi, acc_hr, report_aqi, report_hr, input, stdin,
                   cin_ok, line, s, use_demo, out, fault, exit_status>>

\* the loop over test that fills the four label sequences
Predict ==
    /\ pc = "predict"
    /\ y_true_aqi' = TrueAqi(test)
    /\ y_true_hr' = TrueHr(test)
    /\ y_pred_aqi' = PredAqi(test)
    /\ y_pred_hr' = PredHr(test)
    /\ pc' = "accuracy"
    /\ UNCHANGED <<data, train, test, acc_aqi, acc_hr, report_aqi, report_hr,
                   input, stdin, cin_ok, line, s, use_demo, out, fault,
                   exit_status>>

\* overall accuracy of both label spaces, and its two output lines
Evaluate ==
    /\ pc = "accuracy"
    /\ acc_aqi' = Accuracy(y_true_aqi, y_pred_aqi)
    /\ acc_hr' = Accuracy(y_true_hr, y_pred_hr)
    /\ fault' = (fault \/ Len(y_true_aqi) = 0 \/ Len(y_true_hr) = 0)
    /\ out' = out \o << <<"AQI_Level Accuracy:", acc_aqi'>>,
                        <<"Health_Risk Accuracy:", acc_hr'>> >>
    /\ pc' = "report_aqi"
    /\ UNCHANGED <<data, train, test, y_true_aqi, y_pred_aqi, y_true_hr,
                   y_pred_hr, report_aqi, report_hr, input, stdin, cin_ok,
                   line, s, use_demo, exit_status>>

\* per-class metrics for AQI, labels 0..3
ReportAqi ==
    /\ pc = "report_aqi"
    /\ report_aqi' = ReportFor(y_true_aqi, y_pred_aqi, 3)
    /\ out' = Append(out, <<"AQI_Level Classification Report:", report_aqi'>>)
    /\ pc' = "report_hr"
    /\ UNCHANGED <<data, train, test, y_true_aqi, y_pred_aqi, y_true_hr,
                   y_pred_hr, acc_aqi, acc_hr, report_hr, input, stdin,
                   cin_ok, line, s, use_demo, fault, exit_status>>

\* per-class metrics for health risk, labels 0..2
ReportHr ==
    /\ pc = "report_hr"
    /\ report_hr' = ReportFor(y_true_hr, y_pred_hr, 2)
    /\ out' = Append(out, <<"Health_Risk Classification Report:", report_hr'>>)
    /\ pc' = "prompt"
    /\ UNCHANGED <<data, train, test, y_true_aqi, y_pred_aqi, y_true_hr,
                   y_pred_hr, acc_aqi, acc_hr, report_aqi, input, stdin,
                   cin_ok, line, s, use_demo, fault, exit_status>>

-----------------------------------------------------------------------------
(* Contents of standard input the model tries *)

\* decimal numeral of a natural number
RECURSIVE Digits(_)
Digits(n) ==
    IF n < 10 THEN <<DigitChars[n + 1]>>
    ELSE Digits(n \div 10) \o <<DigitChars[(n % 10) + 1]>>

\* the numeral i.f
Dec(i, f) == Digits(i) \o <<".">> \o Digits(f)

\* words separated by single spaces
RECURSIVE Words(_)
Words(ws) ==
    IF ws = <<>> THEN <<>>
    ELSE IF Len(ws) = 1 THEN ws[1]
    ELSE ws[1] \o <<" ">> \o Words(Tail(ws))

\* a line whose first three and eighth fields are fixed
SampleLine(pm25, pm10, no2, o3, city) ==
    Words(<<Digits(20), Digits(50), Digits(400), pm25, pm10, no2, o3,
            Digits(2), city>>)

LineDemoValues ==
    Words(<<Digits(33), Digits(65), Digits(550), Digits(150), Digits(180),
            Digits(80), Digits(60), Dec(3, 5), Digits(1)>>)
LineRural == SampleLine(Digits(10), Digits(10), Digits(10), Digits(10), Digits(0))
LineHazardCity7 ==
    SampleLine(Digits(500), Digits(300), Digits(2), Digits(180), Digits(7))
LineNegative ==
    SampleLine(<<"-">> \o Digits(10), Digits(10), Digits(10), Digits(10), Digits(0))
LineScore50 == SampleLine(Digits(0), Digits(0), Digits(500), Digits(0), Digits(1))
LineScoreBelow50 ==
    SampleLine(Digits(0), Digits(0), Digits(0), Dec(999, 98), Digits(1))
LineScore100Rural ==
    SampleLine(Digits(0), Digits(500), Digits(0), Digits(0), Digits(0))
LineScore200Rural ==
    SampleLine(Digits(0), Digits(1000), Digits(0), Digits(0), Digits(0))
LineUnhealthyCity2 ==
    SampleLine(Digits(400), Digits(0), Digits(0), Digits(0), Digits(2))
LineCityDecimal ==
    SampleLine(Digits(400), Digits(0), Digits(0), Digits(0), Dec(1, 7))
LineTooFew == Words(<<Digits(33), Digits(65), Digits(550)>>)
LineTooMany == LineRural \o <<" ">> \o Digits(7)
LineNonNumeric ==
    Words(<<Digits(20), Digits(50), <<"x">>, Digits(10), Digits(10),
            Digits(10), Digits(10), Digits(2), Digits(0)>>)
LineDemoSpace == DemoWord \o <<" ">>

StdinInputs ==
    { <<>>,                       \* immediate end of input
      <<DemoWord>>,
      << <<>> >>,                 \* one empty line
      << <<>>, DemoWord >>,
      << <<>>, LineRural >>,
      << <<>>, <<>>, LineRural >>,
      <<LineDemoValues>>,
      <<LineRural>>,
      <<LineHazardCity7>>,
      <<LineNegative>>,
      <<LineScore50>>,
      <<LineScoreBelow50>>,
      <<LineScore100Rural>>,
      <<LineScore200Rural>>,
      <<LineUnhealthyCity2>>,
      <<LineCityDecimal>>,
      <<LineTooFew>>,
      <<LineTooFew, LineRural>>,
      <<LineTooMany>>,
      <<LineNonNumeric>>,
      <<LineDemoSpace>> }

\* every line standard input can deliver, and the empty line left by a
\* failed getline
InputLines == UNION {{in[i] : i \in 1..Len(in)} : in \in StdinInputs} \cup {<<>>}

\* istringstream iss(line); iss >> s.Temperature >> ... >> s.CityType on the
\* freshly declared Sample s, for each line (evaluated once per line)
ParseTable == [l \in InputLines |-> ExtractFields(l, 1, UninitSample)]

-----------------------------------------------------------------------------
(* Driver: the interactive step *)

\* the prompt is written; from here on the user's input exists
Prompt ==
    /\ pc = "prompt"
    /\ \E in \in StdinInputs : input' = in /\ stdin' = in
    /\ out' = Append(out, PromptOutput)
    /\ pc' = "read"
    /\ UNCHANGED <<data, train, test, y_true_aqi, y_pred_aqi, y_true_hr,
                   y_pred_hr, acc_aqi, acc_hr, report_aqi, report_hr, cin_ok,
                   line, s, use_demo, fault, exit_status>>

\* getline(cin, line); if (line.empty()) getline(cin, line);
Read ==
    /\ pc = "read"
    /\ LET r == ReadLine(stdin, cin_ok)
       IN  line' = r[1] /\ stdin' = r[2] /\ cin_ok' = r[3]
    /\ pc' = "parse"
    /\ UNCHANGED <<data, train, test, y_true_aqi, y_pred_aqi, y_true_hr,
                   y_pred_hr, acc_aqi, acc_hr, report_aqi, report_hr, input,
                   s, use_demo, out, fault, exit_status>>

\* if (line == "demo")
InputDemo ==
    /\ pc = "parse"
    /\ line = DemoWord
    /\ use_demo' = TRUE
    /\ s' = DemoFields(s)
    /\ pc' = "classify"
    /\ UNCHANGED <<data, train, test, y_true_aqi, y_pred_aqi, y_true_hr,
                   y_pred_hr, acc_aqi, acc_hr, report_aqi, report_hr, input,
                   stdin, cin_ok, line, out, fault, exit_status>>

\* else: the extraction of all nine fields succeeds
InputParsed ==
    /\ pc = "parse"
    /\ line # DemoWord
    /\ LET r == ParseTable[line]
       IN  r.ok /\ s' = r.s
    /\ pc' = "classify"
    /\ UNCHANGED <<data, train, test, y_true_aqi, y_pred_aqi, y_true_hr,
                   y_pred_hr, acc_aqi, acc_hr, report_aqi, report_hr, input,
                   stdin, cin_ok, line, use_demo, out, fault, exit_status>>

\* else: the extraction fails
InputInvalid ==
    /\ pc = "parse"
    /\ line # DemoWord
    /\ LET r == ParseTable[line]
       IN  ~r.ok /\ s' = InvalidFields(r.s)
    /\ out' = out \o InvalidNotice
    /\ use_demo' = TRUE
    /\ pc' = "classify"
    /\ UNCHANGED <<data, train, test, y_true_aqi, y_pred_aqi, y_true_hr,
                   y_pred_hr, acc_aqi, acc_hr, report_aqi, report_hr, input,
                   stdin, cin_ok, line, fault, exit_status>>

\* s.AQI_Level = compute_aqi_level(s); s.Health_Risk = compute_health_risk(s);
Classify ==
    /\ pc = "classify"
    /\ s' = Labelled(s)
    /\ pc' = "print"
    /\ UNCHANGED <<data, train, test, y_true_aqi, y_pred_aqi, y_true_hr,
                   y_pred_hr, acc_aqi, acc_hr, report_aqi, report_hr, input,
                   stdin, cin_ok, line, use_demo, out, fault, exit_status>>

\* the prediction lines, the closing text, return 0
PrintPrediction ==
    /\ pc = "print"
    /\ out' = out \o PredictionOutput(s)
    /\ fault' = (fault \/ ~InBounds(AQI_labels, s.AQI_Level)
                       \/ ~InBounds(HR_labels, s.Health_Risk))
    /\ exit_status' = 0
    /\ pc' = "done"
    /\ UNCHANGED <<data, train, test, y_true_aqi, y_pred_aqi, y_true_hr,
                   y_pred_hr, acc_aqi, acc_hr, report_aqi, report_hr, input,
                   stdin, cin_ok, line, s, use_demo>>

Next ==
    \/ Generate \/ Shuffle \/ Split \/ Predict \/ Evaluate
    \/ ReportAqi \/ ReportHr \/ Prompt \/ Read
    \/ InputDemo \/ InputParsed \/ InputInvalid
    \/ Classify \/ PrintPrediction

Spec == Init /\ [][Next]_vars

\* main() is straight-line code: whenever a step is possible it is taken
FairSpec == Spec /\ WF_vars(Next)

-----------------------------------------------------------------------------
(* Harness for the rule classifier: the two functions applied to arbitrary  *)
(* samples                                                                  *)

UnitPM2_5 == {0, Fx(150, 0), -Fx(10, 0)}
UnitPM10 == {0, Fx(25, 0), Fx(250, 0)}
UnitNO2 == {0, Fx(500, 0), Fx(1000, 0), Fx(2000, 0)}
UnitO3 == {0, Fx(999, 980), Fx(1000, 0)}
UnitCityType == {0, 1, 2}

InitRest ==
    /\ data = <<>> /\ train = <<>> /\ test = <<>>
    /\ y_true_aqi = <<>> /\ y_pred_aqi = <<>>
    /\ y_true_hr = <<>> /\ y_pred_hr = <<>>
    /\ acc_aqi = Zero /\ acc_hr = Zero
    /\ report_aqi = <<>> /\ report_hr = <<>>
    /\ input = <<>> /\ stdin = <<>> /\ cin_ok = TRUE
    /\ line = <<>> /\ s = UninitSample /\ use_demo = FALSE
    /\ out = <<>> /\ fault = FALSE /\ exit_status = -1

ClassifierInit == pc = "classifier" /\ InitRest

\* both labels computed for a sample, as at creation and in the interactive step
ApplyRules ==
    /\ \E pm25 \in UnitPM2_5, pm10 \in UnitPM10, no2 \in UnitNO2,
          o3 \in UnitO3, city \in UnitCityType :
            s' = Labelled(NewSample(Fx(20, 0), Fx(50, 0), Fx(400, 0), pm25,
                                    pm10, no2, o3, Fx(2, 0), city))
    /\ pc' = "labelled"
    /\ UNCHANGED <<data, train, test, y_true_aqi, y_pred_aqi, y_true_hr,
                   y_pred_hr, acc_aqi, acc_hr, report_aqi, report_hr, input,
                   stdin, cin_ok, line, use_demo, out, fault, exit_status>>

\* compute_health_risk on a sample whose AQI_Level and CityType are given
ApplyRisk ==
    /\ \E aqi \in 0..3, city \in {0, 1} :
         LET a == [s EXCEPT !.AQI_Level = aqi, !.CityType = city]
         IN  s' = [a EXCEPT !.Health_Risk = compute_health_risk(a)]
    /\ pc' = "risk"
    /\ UNCHANGED <<data, train, test, y_true_aqi, y_pred_aqi, y_true_hr,
                   y_pred_hr, acc_aqi, acc_hr, report_aqi, report_hr, input,
                   stdin, cin_ok, line, use_demo, out, fault, exit_status>>

ClassifierNext == ApplyRules \/ ApplyRisk

ClassifierSpec == ClassifierInit /\ [][ClassifierNext]_vars

-----------------------------------------------------------------------------
(* Harness for the metrics engine: compute_metrics_for_label on arbitrary   *)
(* equal-length label sequences                                             *)

MetricsInit == pc = "metrics" /\ InitRest

\* label sequences of one length, and the metrics of every label 0..3
ApplyMetrics ==
    /\ pc = "metrics"
    /\ \E n \in 0..MaxLen :
         \E yt \in [1..n -> 0..3], yp \in [1..n -> 0..3] :
            /\ y_true_aqi' = yt
            /\ y_pred_aqi' = yp
            /\ report_aqi' = ReportFor(yt, yp, 3)
    /\ pc' = "measured"
    /\ UNCHANGED <<data, train, test, y_true_hr, y_pred_hr, acc_aqi, acc_hr,
                   report_hr, input, stdin, cin_ok, line, s, use_demo, out,
                   fault, exit_status>>

\* the harness starts over with empty sequences
ResetMetrics ==
    /\ pc = "measured"
    /\ y_true_aqi' = <<>> /\ y_pred_aqi' = <<>> /\ report_aqi' = <<>>
    /\ pc' = "metrics"
    /\ UNCHANGED <<data, train, test, y_true_hr, y_pred_hr, acc_aqi, acc_hr,
                   report_hr, input, stdin, cin_ok, line, s, use_demo, out,
                   fault, exit_status>>

MetricsNext == ApplyMetrics \/ ResetMetrics

MetricsSpec == MetricsInit /\ [][MetricsNext]_vars

-----------------------------------------------------------------------------
(* Positions of main() *)

AfterSplit == {"predict", "accuracy", "report_aqi", "report_hr", "prompt",
               "read", "parse", "classify", "print", "done"}
AfterPredict == AfterSplit \ {"predict"}
AfterEvaluate == AfterPredict \ {"accuracy"}
AfterReports == AfterEvaluate \ {"report_aqi", "report_hr"}

-----------------------------------------------------------------------------
(* Vocabulary of the properties, stated without the operators of the model *)

\* 20 * Scale * (0.3*PM2_5 + 0.2*PM10 + 0.1*NO2 + 0.05*O3)
Score20(smp) == 6 * smp.PM2_5 + 4 * smp.PM10 + 2 * smp.NO2 + smp.O3
Level20(t) == t * 20 * Scale

NonNegativePollutants(smp) ==
    smp.PM2_5 >= 0 /\ smp.PM10 >= 0 /\ smp.NO2 >= 0 /\ smp.O3 >= 0

\* the decision table of the health-risk function
RiskTable(aqi, city) ==
    CASE aqi = 0 -> 0
      [] aqi = 1 -> 1
      [] aqi = 2 /\ city = 1 -> 2
      [] aqi = 2 /\ city = 0 -> 1
      [] aqi = 3 -> 2

\* counts over positions
TP(yt, yp, l) == Cardinality({i \in 1..Len(yt) : yt[i] = l /\ yp[i] = l})
FP(yt, yp, l) == Cardinality({i \in 1..Len(yt) : yt[i] # l /\ yp[i] = l})
FN(yt, yp, l) == Cardinality({i \in 1..Len(yt) : yt[i] = l /\ yp[i] # l})

\* the fraction f equals a/b (b > 0)
IsRatio(f, a, b) == f.d > 0 /\ f.n * b = a * f.d
IsOne(f) == f.d > 0 /\ f.n = f.d
IsZero(f) == f.d > 0 /\ f.n = 0

RECURSIVE SumSupport(_, _)
SumSupport(report, k) ==
    IF k = 0 THEN 0 ELSE report[k].support + SumSupport(report, k - 1)

\* the fields of a line, split at spaces
RECURSIVE FieldsOf(_, _)
FieldsOf(l, cur) ==
    IF l = <<>> THEN (IF cur = <<>> THEN <<>> ELSE <<cur>>)
    ELSE IF Head(l) = " "
         THEN (IF cur = <<>> THEN <<>> ELSE <<cur>>) \o FieldsOf(Tail(l), <<>>)
         ELSE FieldsOf(Tail(l), Append(cur, Head(l)))

\* an optionally signed decimal numeral
IsNumber(tok) ==
    LET body == IF tok # <<>> /\ tok[1] \in {"-", "+"} THEN Tail(tok) ELSE tok
    IN  /\ \A i \in 1..Len(body) : IsDigit(body[i]) \/ body[i] = "."
        /\ Cardinality({i \in 1..Len(body) : body[i] = "."}) <= 1
        /\ \E i \in 1..Len(body) : IsDigit(body[i])

\* a field that cannot begin a number
NotANumberStart(tok) ==
    tok # <<>> /\ ~IsDigit(tok[1]) /\ tok[1] \notin {"-", "+", "."}

\* exactly nine numeric fields
WellFormed(l) ==
    LET f == FieldsOf(l, <<>>)
    IN  Len(f) = 9 /\ \A i \in 1..9 : IsNumber(f[i])

\* not `demo` and not nine numeric values
Malformed(l) == l # DemoWord /\ ~WellFormed(l)

\* the line the user entered: the first line of input (empty at end of input)
FirstLine(in) == IF in = <<>> THEN <<>> ELSE in[1]

\* the line that is parsed: the first line, or the one after an empty first line
ParsedLine(in) ==
    IF in = <<>> THEN <<>>
    ELSE IF in[1] # <<>> THEN in[1]
    ELSE IF Len(in) >= 2 THEN in[2] ELSE <<>>

\* reading numbers left to right, the line ends or a field that cannot begin
\* a number is met before nine numbers have been read
Rejected(l) ==
    LET f == FieldsOf(l, <<>>)
    IN  /\ l # DemoWord
        /\ \E k \in 1..9 :
              /\ \A j \in 1..(k - 1) : j <= Len(f) /\ IsNumber(f[j])
              /\ (k > Len(f) \/ NotANumberStart(f[k]))

\* what was written after the prompt
AfterPrompt(o) ==
    LET at == {i \in 1..Len(o) : o[i] = PromptOutput}
    IN  IF at = {} THEN <<>>
        ELSE LET i == CHOOSE j \in at : TRUE IN SubSeq(o, i + 1, Len(o))

\* what a run prints after the prompt when the user enters `demo`
DemoRunOutput ==
    << <<"Prediction for the sample:">>,
       <<"AQI Score -> Level", 1, "Moderate">>,
       <<"Health Risk ->", 1, "Medium">>,
       <<"Done.">> >>

HasDemoValues(smp) ==
    /\ smp.Temperature = Fx(33, 0) /\ smp.Humidity = Fx(65, 0)
    /\ smp.CO2 = Fx(550, 0) /\ smp.PM2_5 = Fx(150, 0)
    /\ smp.PM10 = Fx(180, 0) /\ smp.NO2 = Fx(80, 0) /\ smp.O3 = Fx(60, 0)
    /\ smp.WindSpeed = Fx(3, 500) /\ smp.CityType = 1

-----------------------------------------------------------------------------
(* Properties *)

C2_RiskTable ==
    (pc \in {"labelled", "risk"} /\ s.AQI_Level \in 0..3
        /\ s.CityType \in {0, 1}) =>
        s.Health_Risk = RiskTable(s.AQI_Level, s.CityType)

\* a rural sample of AQI level 3 was given health risk 2
C2_Witness ==
    pc = "risk" /\ s.AQI_Level = 3 /\ s.CityType = 0 /\ s.Health_Risk = 2

\* C3: for equal-length sequences and any label, compute_metrics_for_label
\* returns support = number of positions whose true label is the label,
\* precision = tp/(tp+fp) or 0 when tp+fp = 0, recall = tp/(tp+fn) or 0 when
\* tp+fn = 0, F1 = 2*precision*recall/(precision+recall) or 0 when that sum
\* is 0 (that is 2tp/(2tp+fp+fn), or 0 when tp = 0); a label in neither
\* sequence gets precision = recall = F1 = 0 and support 0.
C3_Metrics ==
    pc = "measured" =>
        \A l \in 0..3 :
            LET m  == report_aqi[l + 1]
                tp == TP(y_true_aqi, y_pred_aqi, l)
                fp == FP(y_true_aqi, y_pred_aqi, l)
                fn == FN(y_true_aqi, y_pred_aqi, l)
            IN  /\ m.support
                     = Cardinality({i \in 1..Len(y_true_aqi) : y_true_aqi[i] = l})
                /\ IF tp + fp = 0 THEN IsZero(m.precision)
                   ELSE IsRatio(m.precision, tp, tp + fp)
                /\ IF tp + fn = 0 THEN IsZero(m.recall)
                   ELSE IsRatio(m.recall, tp, tp + fn)
                /\ IF tp = 0 THEN IsZero(m.f1)
                   ELSE IsRatio(m.f1, 2 * tp, 2 * tp + fp + fn)
                /\ ((\A i \in 1..Len(y_true_aqi) :
                        y_true_aqi[i] # l /\ y_pred_aqi[i] # l)
                    => /\ IsZero(m.precision) /\ IsZero(m.recall)
                       /\ IsZero(m.f1) /\ m.support = 0)

\* label 0 with tp = 1, fn = 1, fp = 0: precision 1, recall 1/2, F1 2/3,
\* and label 3 in neither sequence
C3_Witness ==
    /\ pc = "measured"
    /\ y_true_aqi = <<0, 0, 1>> /\ y_pred_aqi = <<0, 1, 1>>
    /\ IsOne(report_aqi[1].precision)
    /\ IsRatio(report_aqi[1].recall, 1, 2)
    /\ IsRatio(report_aqi[1].f1, 2, 3)
    /\ report_aqi[1].support = 2
    /\ report_aqi[4].support = 0 /\ IsZero(report_aqi[4].f1)

\* C4: in the driver the predicted labels of every test sample equal the
\* labels stored at creation, both accuracies are 1.0, and every label with
\* support > 0 has precision = recall = F1 = 1.0.
C4_PerfectScores ==
    /\ pc \in AfterPredict =>
          /\ Len(y_true_aqi) = Len(test) /\ Len(y_true_hr) = Len(test)
          /\ \A i \in 1..Len(test) :
                /\ y_true_aqi[i] = test[i].AQI_Level
                /\ y_true_hr[i] = test[i].Health_Risk
          /\ y_pred_aqi = y_true_aqi
          /\ y_pred_hr = y_true_hr
    /\ pc \in AfterEvaluate => IsOne(acc_aqi) /\ IsOne(acc_hr)
    /\ pc \in AfterReports =>
          /\ \A k \in 1..4 : report_aqi[k].support > 0 =>
                /\ IsOne(report_aqi[k].precision) /\ IsOne(report_aqi[k].recall)
                /\ IsOne(report_aqi[k].f1)
          /\ \A k \in 1..3 : report_hr[k].support > 0 =>
                /\ IsOne(report_hr[k].precision) /\ IsOne(report_hr[k].recall)
                /\ IsOne(report_hr[k].f1)

\* the report of a test partition holding an urban sample of AQI level 2
C4_Witness ==
    /\ pc = "prompt"
    /\ \E i \in 1..Len(test) : test[i].AQI_Level = 2 /\ test[i].CityType = 1
    /\ report_aqi[3].support > 0 /\ IsOne(report_aqi[3].f1)
    /\ report_hr[3].support > 0 /\ IsOne(report_hr[3].f1)
    /\ IsOne(acc_aqi) /\ IsOne(acc_hr)

\* C5: in each label space the supports of all labels add up to the length
\* of the evaluated ground-truth sequence, the size of the test partition.
C5_SupportSum ==
    /\ pc \in (AfterEvaluate \ {"report_aqi"}) =>
          /\ SumSupport(report_aqi, 4) = Len(y_true_aqi)
          /\ SumSupport(report_aqi, 4) = Len(test)
    /\ pc \in AfterReports =>
          /\ SumSupport(report_hr, 3) = Len(y_true_hr)
          /\ SumSupport(report_hr, 3) = Len(test)

\* both reports are written for a non-empty test partition
C5_Witness ==
    /\ pc = "read" /\ Len(test) > 0
    /\ SumSupport(report_aqi, 4) = Len(test)
    /\ SumSupport(report_hr, 3) = Len(test)


\* C6 as stated: any invalid input (an empty line, a wrong number of fields,
\* a non-numeric field) produces after the prompt exactly the output of
\* entering `demo`.
C6_SameOutputAsDemo ==
    (pc = "done"
        /\ (FirstLine(input) = <<>> \/ Malformed(FirstLine(input)))) =>
        AfterPrompt(out) = DemoRunOutput

\* C6 amended: when the line that is parsed (the first line, or the line after
\* an empty first line) is rejected - it is empty, or it ends or meets a field
\* that cannot begin a number before nine numbers have been read - the output
\* after the prompt is the line "Invalid input. Running demo sample."
\* followed by exactly the output of entering `demo`.
C6_NoticeThenDemoOutput ==
    (pc = "done" /\ Rejected(ParsedLine(input))) =>
        AfterPrompt(out)
            = << <<"Invalid input. Running demo sample.">> >> \o DemoRunOutput

\* a line of three fields was answered with the notice and the demo output
C6_Witness ==
    /\ pc = "done" /\ input = <<LineTooFew>>
    /\ Len(AfterPrompt(out)) = 5
    /\ AfterPrompt(out)[1] = <<"Invalid input. Running demo sample.">>
    /\ AfterPrompt(out)[3] = <<"AQI Score -> Level", 1, "Moderate">>

\* C7 as stated: when the input line is not `demo` and does not consist of
\* exactly nine numeric values, the sample classified is the demo sample,
\* never values of the malformed line or of a later line.
C7_MalformedUsesDemo ==
    (pc \in {"classify", "print", "done"} /\ Malformed(FirstLine(input))) =>
        HasDemoValues(s)

\* C8: whatever standard input holds, the run goes through generation, the
\* report and exactly one prediction and returns 0; the test partition is
\* not empty, so no accuracy is divided by zero, and nothing fails.
C8_RunCompletes ==
    /\ [](pc \in AfterSplit => Len(test) > 0)
    /\ [](~fault)
    /\ [](pc \in AfterEvaluate => acc_aqi.d > 0 /\ acc_hr.d > 0)
    /\ [](exit_status = 0 =>
            /\ pc = "done"
            /\ Len(data) = N
            /\ Len(report_aqi) = 4 /\ Len(report_hr) = 3
            /\ Cardinality({i \in 1..Len(out) :
                              out[i] = <<"Prediction for the sample:">>}) = 1)
    /\ <>(pc = "done" /\ exit_status = 0)

\* a run whose input ended at once returned 0 after one prediction
C8_Witness ==
    /\ pc = "done" /\ exit_status = 0 /\ input = <<>> /\ ~cin_ok
    /\ Len(test) > 0 /\ ~fault
    /\ Len(AfterPrompt(out)) = 5

\* C9: every classified sample - the generated ones and the interactive one,
\* also with a CityType outside {0,1} or negative pollutants - has AQI_Level
\* in 0..3 and Health_Risk in 0..2, so both label lookups are within bounds.
C9_LabelsInRange ==
    /\ \A i \in 1..Len(data) :
          data[i].AQI_Level \in 0..3 /\ data[i].Health_Risk \in 0..2
    /\ pc \in {"print", "done"} =>
          /\ s.AQI_Level \in 0..3 /\ s.Health_Risk \in 0..2
          /\ InBounds(AQI_labels, s.AQI_Level)
          /\ InBounds(HR_labels, s.Health_Risk)
    /\ ~fault
    /\ pc = "done" =>
          LET o == AfterPrompt(out) IN
          /\ o[Len(o) - 2][3] \in {"Good", "Moderate", "Unhealthy", "Hazardous"}
          /\ o[Len(o) - 1][3] \in {"Low", "Medium", "High"}

\* a hazardous sample with city type 7 was printed as level 3, risk 2
C9_Witness ==
    /\ pc = "done" /\ s.CityType = 7 /\ s.AQI_Level = 3 /\ s.Health_Risk = 2
    /\ AfterPrompt(out)[2] = <<"AQI Score -> Level", 3, "Hazardous">>
    /\ AfterPrompt(out)[3] = <<"Health Risk ->", 2, "High">>

\* C10: after the shuffle, train is the leading floor(0.8*N) samples (1200
\* of 1500) and test the remaining trailing ones; together they are the
\* permuted collection, sample for sample, and the evaluated label sequences
\* come from the test partition alone.
C10_Split ==
    /\ train_size(1500) = 1200
    /\ pc \in AfterSplit =>
          /\ train \o test = data
          /\ 10 * Len(train) <= 8 * N /\ 8 * N < 10 * (Len(train) + 1)
          /\ Len(test) = N - Len(train)
          /\ \A i \in 1..Len(train) : train[i] = data[i]
          /\ \A i \in 1..Len(test) : test[i] = data[Len(train) + i]
    /\ pc \in AfterPredict =>
          /\ y_true_aqi = [i \in 1..Len(test) |-> test[i].AQI_Level]
          /\ y_true_hr = [i \in 1..Len(test) |-> test[i].Health_Risk]
          /\ Len(y_pred_aqi) = Len(test) /\ Len(y_pred_hr) = Len(test)

\* the split of a collection whose last train sample and first test sample
\* differ
C10_Witness ==
    /\ pc = "predict"
    /\ Len(train) > 0 /\ Len(test) > 0 /\ Len(train) + Len(test) = N
    /\ train[Len(train)] # test[1]

====
